---- MODULE Spec2Model ----
(***************************************************************************)
(* Domain-expiry lookup endpoint (syk1792/domain-checker).                 *)
(*                                                                         *)
(* The repository holds two versions of the serverless function            *)
(* exports.handler:                                                        *)
(*   - src/unnamed/part_000: three sources tried in order (whoisjsonapi,   *)
(*     freeaiapi, the system whois command parsed by parseWhoisOutput);    *)
(*   - src/netlify/functions/check-domain.js: domain validation, one       *)
(*     hosted source (getWhoisData) with a 10 s timeout and a generated    *)
(*     placeholder record (generateSampleData).                            *)
(* Both are modelled; the variable file says which one serves the        *)
(* request.  JavaScript strings are sequences of characters, so that       *)
(* split, trim, toLowerCase, includes and the regular expression are       *)
(* computed as the code computes them.  A character above U+007E is        *)
(* written by its code point name, e.g. "U+B9CC".                          *)
(***************************************************************************)
EXTENDS Integers, Sequences, FiniteSets, TLC

VARIABLES file, event, pc, response, domainInfo, stdout, queried, failed, returned

vars == <<file, event, pc, response, domainInfo, stdout, queried, failed, returned>>

-----------------------------------------------------------------------------
(* Bounds of the model.                                                    *)

\* Largest number of lines of a whois output.
MaxLines == 2

\* The clock (in days after the first day considered) read by new Date().
MaxNow == 1

-----------------------------------------------------------------------------
(* Characters.                                                             *)

UpperCase ==
    <<"A","B","C","D","E","F","G","H","I","J","K","L","M","N","O","P","Q","R","S","T","U","V",
      "W","X","Y","Z">>

LowerCase ==
    <<"a","b","c","d","e","f","g","h","i","j","k","l","m","n","o","p","q","r","s","t","u","v",
      "w","x","y","z">>

Digits ==
    <<"0","1","2","3","4","5","6","7","8","9">>

Ascii ==
    <<" ","!","\"","#","$","%","&","'","(",")","*","+",",","-",".","/","0","1","2","3","4","5",
      "6","7","8","9",":",";","<","=",">","?","@","A","B","C","D","E","F","G","H","I","J","K",
      "L","M","N","O","P","Q","R","S","T","U","V","W","X","Y","Z","[","\\","]","^","_","U+0060","a",
      "b","c","d","e","f","g","h","i","j","k","l","m","n","o","p","q","r","s","t","u","v","w",
      "x","y","z","{","|","}","~">>

SetOf(s) == {s[i] : i \in 1..Len(s)}

PositionIn(s, c) == CHOOSE i \in 1..Len(s) : s[i] = c

\* String.prototype.charCodeAt for the printable ASCII characters.
CharCode(c) == IF c \in SetOf(Ascii) THEN 31 + PositionIn(Ascii, c) ELSE 0

ToLowerChar(c) == IF c \in SetOf(UpperCase) THEN LowerCase[PositionIn(UpperCase, c)] ELSE c

\* String.prototype.toLowerCase
ToLowerCase(s) == [i \in 1..Len(s) |-> ToLowerChar(s[i])]

\* String.prototype.includes
Includes(s, sub) == \E i \in 0..(Len(s) - Len(sub)) : SubSeq(s, i + 1, i + Len(sub)) = sub

\* Position of the first c in s, 0 when there is none.
IndexOf(s, c) ==
    IF \E i \in 1..Len(s) : s[i] = c
    THEN CHOOSE i \in 1..Len(s) : s[i] = c /\ \A j \in 1..(i - 1) : s[j] # c
    ELSE 0

RECURSIVE Split(_, _)
\* String.prototype.split with a one-character separator.
Split(s, c) ==
    LET i == IndexOf(s, c)
    IN  IF i = 0 THEN <<s>>
        ELSE <<SubSeq(s, 1, i - 1)>> \o Split(SubSeq(s, i + 1, Len(s)), c)

IsSpace(c) == c \in {" ", "\t", "\r", "\n"}

\* String.prototype.trim
Trim(s) ==
    LET keep == {i \in 1..Len(s) : ~IsSpace(s[i])}
    IN  IF keep = {} THEN <<>>
        ELSE SubSeq(s, CHOOSE i \in keep : \A j \in keep : i <= j,
                       CHOOSE i \in keep : \A j \in keep : j <= i)

RECURSIVE Join(_, _)
\* Array.prototype.join with a one-character separator.
Join(lines, c) ==
    IF Len(lines) = 0 THEN <<>>
    ELSE IF Len(lines) = 1 THEN lines[1]
    ELSE lines[1] \o <<c>> \o Join(Tail(lines), c)

RECURSIVE DecimalDigits(_)
DecimalDigits(n) ==
    IF n < 10 THEN <<Digits[n + 1]>>
    ELSE DecimalDigits(n \div 10) \o <<Digits[(n % 10) + 1]>>

-----------------------------------------------------------------------------
(* JavaScript values.                                                      *)

Null == [t |-> "null"]

Undefined == [t |-> "undefined"]

Str(s) == [t |-> "string", s |-> s]

Num(n) == [t |-> "number", n |-> n]

Bool(b) == [t |-> "boolean", b |-> b]

Obj(f) == [t |-> "object", o |-> f]

\* ToBoolean of a value: null, undefined, the empty string, 0 and false are
\* falsy.
Truthy(v) == /\ v.t \notin {"null", "undefined"}
             /\ ~(v.t = "string" /\ v.s = <<>>)
             /\ ~(v.t = "number" /\ v.n = 0)
             /\ ~(v.t = "boolean" /\ ~v.b)

\* Property read v.k of an object (undefined for a missing property).
Get(v, k) == IF v.t = "object" /\ k \in DOMAIN v.o THEN v.o[k] ELSE Undefined

\* v || null
OrNull(v) == IF Truthy(v) THEN v ELSE Null

\* A response body or an upstream payload: JSON text, by the value it encodes.
JsonText(v) == [t |-> "string", wellFormed |-> TRUE, value |-> v]

NotJson == [t |-> "string", wellFormed |-> FALSE]

\* JSON.stringify: properties whose value is undefined are left out.
JSONStringify(v) ==
    IF v.t = "object"
    THEN JsonText(Obj([k \in {f \in DOMAIN v.o : v.o[f] # Undefined} |-> v.o[k]]))
    ELSE JsonText(v)

-----------------------------------------------------------------------------
(* parseWhoisOutput (src/unnamed/part_000).                                *)

KwExpiryDate ==
    <<"e","x","p","i","r","y"," ","d","a","t","e",":">>

KwExpires ==
    <<"e","x","p","i","r","e","s",":">>

KwExpirationDate ==
    <<"e","x","p","i","r","a","t","i","o","n"," ","d","a","t","e",":">>

KwRegistrar ==
    <<"r","e","g","i","s","t","r","a","r",":">>

KwCreationDate ==
    <<"c","r","e","a","t","i","o","n"," ","d","a","t","e",":">>

KwCreated ==
    <<"c","r","e","a","t","e","d",":">>

\* line.split(':')[1]?.trim()
SecondPiece(line) ==
    LET pieces == Split(line, ":")
    IN  IF Len(pieces) >= 2 THEN Str(Trim(pieces[2])) ELSE Undefined

IsExpiryLine(lowerLine) ==
    \/ Includes(lowerLine, KwExpiryDate)
    \/ Includes(lowerLine, KwExpires)
    \/ Includes(lowerLine, KwExpirationDate)

IsRegistrarLine(lowerLine) == Includes(lowerLine, KwRegistrar)

IsCreationLine(lowerLine) ==
    \/ Includes(lowerLine, KwCreationDate)
    \/ Includes(lowerLine, KwCreated)

\* if (!expiryDate): the field is still open to a matching line.
FieldOpen(value) == ~Truthy(value)

\* One iteration of the loop over the lines.
ParseLine(acc, line) ==
    LET lowerLine == ToLowerCase(line)
    IN  [expiryDate   |-> IF FieldOpen(acc.expiryDate) /\ IsExpiryLine(lowerLine)
                          THEN SecondPiece(line) ELSE acc.expiryDate,
         registrar    |-> IF FieldOpen(acc.registrar) /\ IsRegistrarLine(lowerLine)
                          THEN SecondPiece(line) ELSE acc.registrar,
         creationDate |-> IF FieldOpen(acc.creationDate) /\ IsCreationLine(lowerLine)
                          THEN SecondPiece(line) ELSE acc.creationDate]

RECURSIVE ParseLines(_, _)
ParseLines(lines, acc) ==
    IF lines = <<>> THEN acc
    ELSE ParseLines(Tail(lines), ParseLine(acc, Head(lines)))

parseWhoisOutput(whoisData, domain) ==
    LET r == ParseLines(Split(whoisData, "\n"),
                        [expiryDate |-> Null, registrar |-> Null, creationDate |-> Null])
    IN  Obj([domain_name   |-> Str(domain),
             expiry_date   |-> r.expiryDate,
             registrar     |-> r.registrar,
             creation_date |-> r.creationDate])

-----------------------------------------------------------------------------
(* Domain validation and the placeholder record (check-domain.js).         *)

\* The {0,61} of the regular expression: a label has at most 61 characters
\* between its first and its last.
MaxLabelMiddle == 61

IsLetter(c) == c \in SetOf(UpperCase) \cup SetOf(LowerCase)

IsAlnum(c) == IsLetter(c) \/ c \in SetOf(Digits)

\* [a-zA-Z0-9]([a-zA-Z0-9-]{0,61}[a-zA-Z0-9])?
IsLabel(l) ==
    /\ Len(l) >= 1
    /\ Len(l) <= MaxLabelMiddle + 2
    /\ IsAlnum(l[1])
    /\ IsAlnum(l[Len(l)])
    /\ \A i \in 1..Len(l) : IsAlnum(l[i]) \/ l[i] = "-"

\* [a-zA-Z]{2,}
IsTld(l) == Len(l) >= 2 /\ \A i \in 1..Len(l) : IsLetter(l[i])

\* domainRegex.test(domain): no class of the expression contains the dot, so a
\* match is a sequence of labels between dots, ended by the letters-only label.
domainRegexTest(domain) ==
    LET labels == Split(domain, ".")
    IN  /\ Len(labels) >= 2
        /\ \A i \in 1..(Len(labels) - 1) : IsLabel(labels[i])
        /\ IsTld(labels[Len(labels)])

RGoDaddy ==
    <<"G","o","D","a","d","d","y",".","c","o","m",","," ","L","L","C">>

RNamecheap ==
    <<"N","a","m","e","c","h","e","a","p",","," ","I","n","c",".">>

RGoogle ==
    <<"G","o","o","g","l","e"," ","D","o","m","a","i","n","s"," ","L","L","C">>

RAmazon ==
    <<"A","m","a","z","o","n"," ","R","e","g","i","s","t","r","a","r",","," ","I","n","c",".">>

RCloudflare ==
    <<"C","l","o","u","d","f","l","a","r","e",","," ","I","n","c",".">>

RNetSol ==
    <<"N","e","t","w","o","r","k"," ","S","o","l","u","t","i","o","n","s",","," ","L","L","C">>

SRegistered ==
    <<"r","e","g","i","s","t","e","r","e","d">>

SAvailable ==
    <<"a","v","a","i","l","a","b","l","e">>

registrars == <<RGoDaddy, RNamecheap, RGoogle, RAmazon, RCloudflare, RNetSol>>

RECURSIVE SumCodes(_)
\* seed += domain.charCodeAt(i), over the whole domain
SumCodes(s) == IF s = <<>> THEN 0 ELSE CharCode(Head(s)) + SumCodes(Tail(s))

\* Date.prototype.toISOString.  Time is counted in whole days and a date is
\* written as the decimal number of its day.
toISOString(day) == Str(DecimalDigits(day))

generateSampleData(domain, now) ==
    LET seed         == SumCodes(domain)
        daysToAdd    == 30 + (seed % 335)
        expiryDate   == now + daysToAdd
        yearsAgo     == 1 + (seed % 3)
        creationDate == expiryDate - (yearsAgo * 365)
    IN  Obj([domain        |-> Str(domain),
             expiry_date   |-> toISOString(expiryDate),
             creation_date |-> toISOString(creationDate),
             registrar     |-> Str(registrars[(seed % Len(registrars)) + 1]),
             status        |-> Str(SRegistered)])

\* The res.on('end') callback of getWhoisData: what the promise resolves to for
\* the payload data.  A payload that is not JSON, or the JSON value null (whose
\* property read throws), ends in the catch block.
getWhoisDataOnEnd(data, domain, now) ==
    IF ~data.wellFormed \/ data.value.t = "null"
    THEN generateSampleData(domain, now)
    ELSE LET parsed == data.value
         IN  IF Get(parsed, "status") = Str(SAvailable) THEN Null
             ELSE IF Get(parsed, "status") = Str(SRegistered)
                     /\ Truthy(Get(parsed, "expiry_date"))
             THEN Obj([domain        |-> Str(domain),
                       expiry_date   |-> Get(parsed, "expiry_date"),
                       creation_date |-> OrNull(Get(parsed, "creation_date")),
                       registrar     |-> OrNull(Get(parsed, "registrar")),
                       status        |-> Str(SRegistered)])
             ELSE generateSampleData(domain, now)

-----------------------------------------------------------------------------
(* The inputs: requests, upstream payloads and whois outputs.              *)

DomA ==
    <<"a",".","i","o">>

DomB ==
    <<"x","-","1",".","c","o">>

DomSpace ==
    <<"n","o","t"," ","a"," ","d","o","m","a","i","n">>

DomDigitTld ==
    <<"a",".","b","1">>

SDate2030 ==
    <<"2","0","3","0","-","0","1","-","0","1">>

SDate2020 ==
    <<"2","0","2","0","-","0","1","-","0","1">>

SDate2031 ==
    <<"2","0","3","1","-","0","5","-","0","5">>

SAcme ==
    <<"A","c","m","e">>

Domains == {DomA, DomB, DomSpace, DomDigitTld}

Methods == {"GET", "POST", "OPTIONS"}

\* event.queryStringParameters: null, an object without domain, or an object
\* with domain (the empty string included).
QueryStringParameters ==
    {Null, Obj(<<>>)} \cup {Obj([domain |-> Str(d)]) : d \in Domains \cup {<<>>}}

Events == [httpMethod : Methods, queryStringParameters : QueryStringParameters]

\* The days new Date() may fall on, counted from 1 January 1970.
Clock == {20759 + d : d \in 0..MaxNow}

\* The payloads an upstream API may answer with.
Payloads ==
    { NotJson,
      JsonText(Null),
      JsonText(Obj([status |-> Str(SAvailable)])),
      JsonText(Obj([status |-> Str(SAvailable), expiry_date |-> Str(SDate2031)])),
      JsonText(Obj([status |-> Str(SRegistered), expiry_date |-> Str(SDate2030),
                    creation_date |-> Str(SDate2020), registrar |-> Str(SAcme)])),
      JsonText(Obj([status |-> Str(SRegistered), expiry_date |-> Str(<<>>)])),
      JsonText(Obj([status |-> Str(SRegistered), expiry_date |-> Null,
                    registrar |-> Str(SAcme)])),
      JsonText(Obj([status |-> Str(SRegistered), expiry_date |-> Num(0)])),
      JsonText(Obj([domain_name |-> Str(DomA), expiry_date |-> Str(SDate2031)])) }

LineRegistryExpiry ==
    <<"R","e","g","i","s","t","r","y"," ","E","x","p","i","r","y"," ","D","a","t","e",":"," ",
      "2","0","2","5","-","0","1","-","0","1","T","0","0",":","0","0",":","0","0","Z">>

LineRegistrar ==
    <<"R","e","g","i","s","t","r","a","r",":"," ","E","x","a","m","p","l","e"," ","R","e","g",
      "i","s","t","r","a","r">>

LineKorean ==
    <<"U+B9CC","U+B8CC","U+C77C"," ",":"," ","2","0","2","6","-","0","3","-","1","5">>

LineExpiresEmpty ==
    <<"E","x","p","i","r","e","s",":"," ">>

LineExpires ==
    <<"e","x","p","i","r","e","s",":"," ","2","0","3","0","-","1","2","-","3","1">>

LineRegistrarNote ==
    <<"R","e","g","i","s","t","r","a","r",":"," ","A","c","m","e",","," ","e","x","p","i","r",
      "e","s",":"," ","n","e","v","e","r">>

LineRemark ==
    <<"R","e","m","a","r","k",":"," ","c","r","e","a","t","e","d",":"," ","2","0","0","1">>

LineNoColon ==
    <<"N","o"," ","m","a","t","c","h"," ","f","o","r"," ","d","o","m","a","i","n">>

WhoisLines == {LineRegistryExpiry, LineRegistrar, LineKorean, LineExpiresEmpty,
               LineExpires, LineRegistrarNote, LineRemark, LineNoColon}

\* The outputs of the whois command: up to MaxLines lines joined by newlines.
WhoisOutputs ==
    {Join(ls, "\n") : ls \in UNION {[1..n -> WhoisLines] : n \in 0..MaxLines}}

-----------------------------------------------------------------------------
(* The state of one invocation.                                            *)
(*   file        which version of the function serves the request          *)
(*   event       the request                                               *)
(*   pc          "start", the call the handler awaits, or "done"           *)
(*   response    the value the handler returned                            *)
(*   domainInfo  the value the handler last got from a source              *)
(*   stdout      the output of the whois command, once it has run          *)
(*   queried     history: the sources a call was made to                   *)
(*   failed      history: the sources whose call ended in an error event,  *)
(*               a timeout or a payload that could not be read             *)
(*   returned    history: the value each source function gave the handler  *)

Part000 == "part_000"

CheckDomain == "check-domain.js"

Files == {Part000, CheckDomain}

WhoisJsonApi == "whoisjsonapi.com"

FreeApi == "whois.freeaiapi.xyz"

SystemWhois == "whois"

WhoisJson == "whoisjson.com"

\* The sources in priority order, and those of each version.
SourceOrder == <<WhoisJsonApi, FreeApi, SystemWhois, WhoisJson>>

Sources == SetOf(SourceOrder)

SourcesOf(f) == IF f = Part000 THEN {WhoisJsonApi, FreeApi, SystemWhois} ELSE {WhoisJson}

NotReturned == [t |-> "none"]

NoResponse == [t |-> "none"]

\* The error messages, named by what they say.
MsgDomainRequired == <<"msg:domain-required">>

MsgInvalidDomain == <<"msg:invalid-domain-format">>

MsgNotFound == <<"msg:domain-info-not-found">>

MsgServerError == <<"msg:server-error">>

ErrorBody(msg) == JSONStringify(Obj([error |-> Str(msg)]))

\* event.queryStringParameters.domain, once the read is known not to throw
Domain == Get(event.queryStringParameters, "domain")

Init ==
    /\ file \in Files
    /\ event \in Events
    /\ pc = "start"
    /\ response = NoResponse
    /\ domainInfo = Null
    /\ stdout = Undefined
    /\ queried = {}
    /\ failed = {}
    /\ returned = [s \in Sources |-> NotReturned]

\* return { statusCode, headers, body }
Respond(status, body) ==
    /\ response' = [statusCode |-> status, body |-> body]
    /\ pc' = "done"

-----------------------------------------------------------------------------
(* exports.handler of src/unnamed/part_000.                                *)

\* The same test reading a property the records do not have.
HasExpiryWrongField(info) == Truthy(info) /\ Truthy(Get(info, "expiration_date"))

\* domainInfo && domainInfo.expiry_date
HasExpiry(info) == Truthy(info) /\ Truthy(Get(info, "expiry_date"))

\* From the invocation to the first await.
handlerPart000 ==
    /\ file = Part000
    /\ pc = "start"
    /\ IF event.httpMethod = "OPTIONS"
       THEN Respond(200, Undefined) /\ UNCHANGED queried
       ELSE IF event.queryStringParameters.t # "object"
       THEN \* reading .domain of null throws; the outer catch answers
            Respond(500, ErrorBody(MsgServerError)) /\ UNCHANGED queried
       ELSE IF ~Truthy(Domain)
       THEN Respond(400, ErrorBody(MsgDomainRequired)) /\ UNCHANGED queried
       ELSE /\ pc' = "fetchFromWhoisJSON"
            /\ queried' = queried \cup {WhoisJsonApi}
            /\ UNCHANGED response
    /\ UNCHANGED <<file, event, domainInfo, stdout, failed, returned>>

\* The handler goes on after source src gave nothing usable.
FallThrough(src) ==
    IF src = WhoisJsonApi
    THEN /\ pc' = "fetchFromFreeAPI"
         /\ queried' = queried \cup {FreeApi}
         /\ UNCHANGED response
    ELSE IF src = FreeApi
    THEN /\ pc' = "execAsync"
         /\ queried' = queried \cup {SystemWhois}
         /\ UNCHANGED response
    ELSE /\ Respond(404, ErrorBody(MsgNotFound))
         /\ UNCHANGED queried

\* The awaited call of src yields info.
Fulfilled(src, info) ==
    /\ domainInfo' = info
    /\ returned' = [returned EXCEPT ![src] = info]
    /\ UNCHANGED failed
    /\ IF HasExpiry(info)
       THEN Respond(200, JSONStringify(info)) /\ UNCHANGED queried
       ELSE FallThrough(src)

\* The awaited call of src throws: the catch block logs and the handler goes on.
Rejected(src) ==
    /\ failed' = failed \cup {src}
    /\ UNCHANGED <<domainInfo, returned>>
    /\ FallThrough(src)

\* res.on('end') of fetchFromWhoisJSON: JSON.parse(data) resolves or rejects.
fetchFromWhoisJSONEnd ==
    /\ pc = "fetchFromWhoisJSON"
    /\ \E data \in Payloads :
          IF data.wellFormed THEN Fulfilled(WhoisJsonApi, data.value)
          ELSE Rejected(WhoisJsonApi)
    /\ UNCHANGED <<file, event, stdout>>

\* .on('error') of fetchFromWhoisJSON
fetchFromWhoisJSONError ==
    /\ pc = "fetchFromWhoisJSON"
    /\ Rejected(WhoisJsonApi)
    /\ UNCHANGED <<file, event, stdout>>

fetchFromFreeAPIEnd ==
    /\ pc = "fetchFromFreeAPI"
    /\ \E data \in Payloads :
          IF data.wellFormed THEN Fulfilled(FreeApi, data.value)
          ELSE Rejected(FreeApi)
    /\ UNCHANGED <<file, event, stdout>>

fetchFromFreeAPIError ==
    /\ pc = "fetchFromFreeAPI"
    /\ Rejected(FreeApi)
    /\ UNCHANGED <<file, event, stdout>>

\* execAsync resolves with the output of the whois command, which is parsed.
execAsyncExit ==
    /\ pc = "execAsync"
    /\ \E out \in WhoisOutputs :
          /\ stdout' = Str(out)
          /\ Fulfilled(SystemWhois, parseWhoisOutput(out, Domain.s))
    /\ UNCHANGED <<file, event>>

\* execAsync rejects (no whois command, non-zero exit status).
execAsyncError ==
    /\ pc = "execAsync"
    /\ Rejected(SystemWhois)
    /\ UNCHANGED <<file, event, stdout>>

-----------------------------------------------------------------------------
(* exports.handler of src/netlify/functions/check-domain.js.               *)

\* From the invocation to the await of getWhoisData.
handlerCheckDomain ==
    /\ file = CheckDomain
    /\ pc = "start"
    /\ IF event.httpMethod = "OPTIONS"
       THEN Respond(200, Str(<<>>)) /\ UNCHANGED queried
       ELSE IF ~Truthy(Domain)
       THEN Respond(400, ErrorBody(MsgDomainRequired)) /\ UNCHANGED queried
       ELSE IF ~domainRegexTest(Domain.s)
       THEN Respond(400, ErrorBody(MsgInvalidDomain)) /\ UNCHANGED queried
       ELSE /\ pc' = "getWhoisData"
            /\ queried' = queried \cup {WhoisJson}
            /\ UNCHANGED response
    /\ UNCHANGED <<file, event, domainInfo, stdout, failed, returned>>

\* getWhoisData resolves with whoisData and the handler answers.
Resolved(whoisData) ==
    /\ domainInfo' = whoisData
    /\ returned' = [returned EXCEPT ![WhoisJson] = whoisData]
    /\ IF ~Truthy(whoisData)
       THEN Respond(404, ErrorBody(MsgNotFound))
       ELSE Respond(200, JSONStringify(whoisData))
    /\ UNCHANGED <<file, event, stdout, queried>>

\* res.on('end') of getWhoisData
getWhoisDataEnd ==
    /\ pc = "getWhoisData"
    /\ \E data \in Payloads, now \in Clock :
          /\ Resolved(getWhoisDataOnEnd(data, Domain.s, now))
          /\ failed' = IF ~data.wellFormed \/ data.value.t = "null"
                       THEN failed \cup {WhoisJson} ELSE failed

\* req.on('error') of getWhoisData
getWhoisDataError ==
    /\ pc = "getWhoisData"
    /\ \E now \in Clock : Resolved(generateSampleData(Domain.s, now))
    /\ failed' = failed \cup {WhoisJson}

\* The callback of req.setTimeout(10000, ...): req.destroy() and the placeholder.
getWhoisDataTimeout ==
    /\ pc = "getWhoisData"
    /\ \E now \in Clock : Resolved(generateSampleData(Domain.s, now))
    /\ failed' = failed \cup {WhoisJson}

-----------------------------------------------------------------------------

Next ==
    \/ handlerPart000
    \/ fetchFromWhoisJSONEnd
    \/ fetchFromWhoisJSONError
    \/ fetchFromFreeAPIEnd
    \/ fetchFromFreeAPIError
    \/ execAsyncExit
    \/ execAsyncError
    \/ handlerCheckDomain
    \/ getWhoisDataEnd
    \/ getWhoisDataError
    \/ getWhoisDataTimeout

Spec == Init /\ [][Next]_vars

\* The runtime runs the handler once invoked, and a timer that was set fires;
\* nothing makes the network or the whois command answer.
FairSpec ==
    /\ Spec
    /\ WF_vars(handlerPart000)
    /\ WF_vars(handlerCheckDomain)
    /\ WF_vars(getWhoisDataTimeout)

-----------------------------------------------------------------------------
(* The properties.                                                         *)

Done == pc = "done"

IsGet == event.httpMethod = "GET"

\* The request carries a non-empty domain parameter.
HasDomain == event.queryStringParameters.t = "object" /\ Truthy(Domain)

\* A GET request whose domain passes the syntactic validation.
ValidLookup == IsGet /\ HasDomain /\ domainRegexTest(Domain.s)

\* v is a record whose expiry_date is present and not null.
NonNullExpiry(v) == v.t = "object" /\ Get(v, "expiry_date").t \notin {"null", "undefined"}

\* v is a record whose expiry_date is truthy: not missing, null, the empty
\* string, 0 or false.
TruthyExpiry(v) ==
    /\ NonNullExpiry(v)
    /\ Get(v, "expiry_date") \notin {Str(<<>>), Num(0), Bool(FALSE)}

\* v is a result without expiry date: null, or a record whose expiry_date is
\* missing or null.
NullExpiry(v) == v # NotReturned /\ ~NonNullExpiry(v)

\* The first source, in priority order, whose returned value satisfies P.
FirstSource(P(_)) ==
    SourceOrder[CHOOSE i \in 1..Len(SourceOrder) :
                   /\ P(returned[SourceOrder[i]])
                   /\ \A j \in 1..(i - 1) : ~P(returned[SourceOrder[j]])]

\* C1 as stated: if a source returned a record with non-null expiry_date to a
\* GET request with a valid domain, the response is 200 and its body is the
\* record of the first such source in priority order.
C1_FirstNonNullRecordAnswered ==
    (Done /\ ValidLookup /\ \E s \in Sources : NonNullExpiry(returned[s]))
    => /\ response.statusCode = 200
       /\ response.body = JsonText(returned[FirstSource(NonNullExpiry)])

\* C1 amended: if a source function returned to the handler a record whose
\* expiry_date is truthy, the response to a GET request with a valid domain is
\* 200 and its body is the record of the first such source in priority order.
C1_FirstTruthyRecordAnswered ==
    (Done /\ ValidLookup /\ \E s \in Sources : TruthyExpiry(returned[s]))
    => /\ response.statusCode = 200
       /\ response.body = JsonText(returned[FirstSource(TruthyExpiry)])

\* The first source returned a record without usable expiry date, the second a
\* record with one, and the handler answered.
C1_Witness ==
    /\ Done
    /\ ValidLookup
    /\ file = Part000
    /\ returned[WhoisJsonApi].t = "object"
    /\ ~TruthyExpiry(returned[WhoisJsonApi])
    /\ TruthyExpiry(returned[FreeApi])
    /\ response.statusCode = 200

\* C2: when every source of a GET request with a valid domain failed or
\* returned a result with null expiry_date, the response is 404.
C2_AllSourcesFailedIs404 ==
    (Done /\ ValidLookup
          /\ \A s \in SourcesOf(file) : s \in failed \/ NullExpiry(returned[s]))
    => response.statusCode = 404

\* The request has no domain parameter: no parameter object, no domain
\* property, or an empty one.
NoDomainParameter == ~HasDomain

\* C3: a request without domain parameter is answered 400, whatever its HTTP
\* method, and no source is queried for it.
C3_MissingDomainIs400 ==
    NoDomainParameter
    => /\ queried = {}
       /\ Done => response.statusCode = 400

\* C4: a GET request whose domain is present but fails the syntactic validation
\* is answered 400, and no source is queried for it.
C4_InvalidDomainIs400 ==
    (IsGet /\ HasDomain /\ ~domainRegexTest(Domain.s))
    => /\ queried = {}
       /\ Done => response.statusCode = 400

WhoisRecordFields == {"domain", "expiry_date", "creation_date", "registrar", "status"}

\* C5: the body of every 200 response to a GET lookup is a record with exactly
\* the fields of a WhoisRecord, the requested domain, a non-null expiry_date
\* and the status "registered".
C5_SuccessBodyIsWhoisRecord ==
    (Done /\ IsGet /\ response.statusCode = 200)
    => /\ response.body.wellFormed
       /\ response.body.value.t = "object"
       /\ DOMAIN response.body.value.o = WhoisRecordFields
       /\ Get(response.body.value, "domain") = Domain
       /\ NonNullExpiry(response.body.value)
       /\ Get(response.body.value, "status") = Str(SRegistered)

ValScenarioExpiry ==
    <<"2","0","2","5","-","0","1","-","0","1","T","0","0",":","0","0",":","0","0","Z">>

ValScenarioRegistrar ==
    <<"E","x","a","m","p","l","e"," ","R","e","g","i","s","t","r","a","r">>

ValKoreanExpiry ==
    <<"2","0","2","6","-","0","3","-","1","5">>

\* The whois command has run and its output was parsed.
Parsed == stdout.t = "string"

\* The lines of the parsed output and the record made of them.
ParsedLines == Split(stdout.s, "\n")

ParsedRecord == returned[SystemWhois]

\* C6: the value of a line is the whole text after its first colon: an output
\* made of the lines "Registry Expiry Date: 2025-01-01T00:00:00Z" and
\* "Registrar: Example Registrar" parses to that expiry date, that registrar
\* and a null creation date.
C6_ValueKeepsLaterColons ==
    (Parsed /\ SetOf(ParsedLines) = {LineRegistryExpiry, LineRegistrar})
    => /\ Get(ParsedRecord, "expiry_date") = Str(ValScenarioExpiry)
       /\ Get(ParsedRecord, "registrar") = Str(ValScenarioRegistrar)
       /\ Get(ParsedRecord, "creation_date") = Null

\* C7: an output with the Korean-labelled line "U+B9CC U+B8CC U+C77C : 2026-03-15"
\* parses with expiry_date "2026-03-15".
C7_KoreanExpiryLabel ==
    (Parsed /\ SetOf(ParsedLines) = {LineKorean})
    => Get(ParsedRecord, "expiry_date") = Str(ValKoreanExpiry)

HasColon(line) == IndexOf(line, ":") > 0

\* The normalized key of a line: the text before its first colon, trimmed and
\* lowercased.
NormalizedKey(line) == Trim(ToLowerCase(SubSeq(line, 1, IndexOf(line, ":") - 1)))

\* A keyword of the parser without its colon.
KeyOf(kw) == SubSeq(kw, 1, Len(kw) - 1)

ExpiryKeys == {KeyOf(KwExpiryDate), KeyOf(KwExpires), KeyOf(KwExpirationDate)}

RegistrarKeys == {KeyOf(KwRegistrar)}

CreationKeys == {KeyOf(KwCreationDate), KeyOf(KwCreated)}

\* Some line of the parsed output has a key equal to a keyword of keys.
SomeLineKeyed(keys) ==
    \E i \in 1..Len(ParsedLines) :
        HasColon(ParsedLines[i]) /\ NormalizedKey(ParsedLines[i]) \in keys

\* C8: a field is populated only from a line whose normalized key equals a
\* keyword of that field; so an output whose keys are all registrar keywords
\* leaves expiry_date and creation_date null.
C8_ExactKeyMatch ==
    Parsed
    => /\ Get(ParsedRecord, "expiry_date") # Null => SomeLineKeyed(ExpiryKeys)
       /\ Get(ParsedRecord, "registrar") # Null => SomeLineKeyed(RegistrarKeys)
       /\ Get(ParsedRecord, "creation_date") # Null => SomeLineKeyed(CreationKeys)

\* The value of the first line of the parsed output that matches a field, as
\* the parser matches and reads lines; null when no line matches.
FirstMatchValue(Matches(_)) ==
    LET hits == {i \in 1..Len(ParsedLines) : Matches(ToLowerCase(ParsedLines[i]))}
    IN  IF hits = {} THEN Null
        ELSE SecondPiece(ParsedLines[CHOOSE i \in hits : \A j \in hits : i <= j])

\* C9: each field is the value of the first line, in document order, that
\* matches it; no later matching line overwrites it, also when the value of
\* the first matching line is empty.
C9_FirstMatchWins ==
    Parsed
    => /\ Get(ParsedRecord, "expiry_date") = FirstMatchValue(IsExpiryLine)
       /\ Get(ParsedRecord, "registrar") = FirstMatchValue(IsRegistrarLine)
       /\ Get(ParsedRecord, "creation_date") = FirstMatchValue(IsCreationLine)

\* C10: every call to a source is bounded by a timeout, so every request is
\* eventually answered, also when a source never answers.
C10_EveryRequestAnswered == <>Done

====
